---- MODULE Spec2Model ----
(***************************************************************************)
(* Model of main.py: the command-line entry point (parse_arguments and the *)
(* __main__ block) and forward(), which trains or tests an AutoML model    *)
(* and persists / reloads the hyperparameters through an Excel sheet.      *)
(*                                                                         *)
(* The file system outlives a run, so the model is a sequence of runs over *)
(* one file system.  Each statement of forward() that can raise or that    *)
(* has an effect outside the process is one step.                          *)
(*                                                                         *)
(* Numbers are kept in tenths (a float 4.5 is 45, the int 4 is 40 when it  *)
(* sits in a numeric sheet cell).  Paths are sequences of tokens.          *)
(***************************************************************************)
EXTENDS Integers, Sequences, FiniteSets, TLC

VARIABLES
    fs,               \* the file system: resolved path -> file content
    pc,               \* position of the current run
    args,             \* the argparse namespace of the current run
    params_file_path, \* forward()'s local params_file_path
    model,            \* forward()'s local model
    params,           \* forward()'s local params
    metric,           \* forward()'s local metric
    trace,            \* history: the steps of this run that left the process, in order
    fsStart,          \* history: the file system when the run started
    evaluated         \* history: the (record file, params) pairs handed to an
                      \* evaluation since that file was last written

vars == <<fs, pc, args, params_file_path, model, params, metric, trace, fsStart, evaluated>>

----------------------------------------------------------------------------
(* Bounds *)

\* the search may return any accuracy from 1.0 - MetricSpan/10 up to 1.0
MetricSpan == 1

----------------------------------------------------------------------------
(* Optional values (Python None) *)

None == [some |-> FALSE]
Some(x) == [some |-> TRUE, val |-> x]

----------------------------------------------------------------------------
(* Python values and sheet cells *)

PyInt(n) == [k |-> "int", v |-> n]
\* a float, t in tenths
PyFloat(t) == [k |-> "float", t |-> t]
PyStr(s) == [k |-> "str", s |-> s]

\* a numeric cell holds a number (in tenths) without saying int or float
NumCell(t) == [c |-> "n", t |-> t]
TextCell(s) == [c |-> "s", s |-> s]

\* pd.Series(params).to_excel: every value is written in its natural
\* representation, numbers as numeric cells and strings as text cells
ToCell(x) ==
    IF x.k = "int" THEN NumCell(x.v * 10)
    ELSE IF x.k = "float" THEN NumCell(x.t)
    ELSE TextCell(x.s)

to_excel(p) == [key \in DOMAIN p |-> ToCell(p[key])]

\* pd.read_excel(...).to_dict()[0]: a cell comes back as int when its number
\* is integral and as float otherwise; a column with no text cell is a
\* numeric column, and one float in it makes every value a float
read_excel(cells) ==
    LET allNum == \A key \in DOMAIN cells : cells[key].c = "n"
        allInt == \A key \in DOMAIN cells : cells[key].t % 10 = 0
        FromCell(cell) ==
            IF cell.c = "s" THEN PyStr(cell.s)
            ELSE IF allNum /\ ~allInt THEN PyFloat(cell.t)
            ELSE IF cell.t % 10 = 0 THEN PyInt(cell.t \div 10)
            ELSE PyFloat(cell.t)
    IN  [key \in DOMAIN cells |-> FromCell(cells[key])]

\* the texts int() can parse
IntText == [txt \in {"4"} |-> 4]

\* whether int(value) raises
IntRaises(x) == x.k = "str" /\ x.s \notin DOMAIN IntText

\* int(value): an int is kept, a float is truncated towards zero, a text is parsed
int(x) ==
    IF x.k = "int" THEN x
    ELSE IF x.k = "float"
         THEN PyInt(IF x.t >= 0 THEN x.t \div 10 ELSE -((-x.t) \div 10))
    ELSE PyInt(IntText[x.s])

\* the names forward() leaves as loaded
AllowList == {"lr", "dropout_ff", "fourie_mode", "embedding_mode", "max_seq_len"}

\* mutant: max_seq_len is missing from the list of names left as loaded
CoerceMaxSeqLen(p) ==
    [key \in DOMAIN p |->
        IF key \notin {"lr", "dropout_ff", "fourie_mode", "embedding_mode"}
        THEN int(p[key]) ELSE p[key]]

\* the loop of forward() over the loaded params
CoerceRaises(p) == \E key \in DOMAIN p : key \notin AllowList /\ IntRaises(p[key])

Coerce(p) == [key \in DOMAIN p |-> IF key \notin AllowList THEN int(p[key]) ELSE p[key]]

----------------------------------------------------------------------------
(* Paths *)

SEP == "/"

\* mutant: the two parts are concatenated without a separator
joinNoSep(a, b) == a \o b

\* os.path.join(a, b) for two parts
join(a, b) ==
    IF Len(b) > 0 /\ Head(b) = SEP THEN b
    ELSE IF Len(a) = 0 \/ a[Len(a)] = SEP THEN a \o b
    ELSE a \o <<SEP>> \o b

\* str(metric) of a float given in tenths: 9 is "0.9", 10 is "1.0"
str(m) == <<ToString(m \div 10), ".", ToString(m % 10)>>

\* the file a relative path names: its components, empty ones dropped
RECURSIVE Components(_)
Components(path) ==
    IF Len(path) = 0 THEN <<>>
    ELSE LET n == Len(path)
             rest == Components(SubSeq(path, 1, n - 1))
             last == path[n]
         IN  IF last = SEP THEN rest \o <<<<>>>>
             ELSE IF Len(rest) = 0 THEN <<<<last>>>>
             ELSE [rest EXCEPT ![Len(rest)] = @ \o <<last>>]

Resolve(path) == SelectSeq(Components(path), LAMBDA comp : Len(comp) > 0)

----------------------------------------------------------------------------
(* Inputs *)

Modes == {"train", "test_params", "test_model"}

\* accuracies in tenths
Metrics == (10 - MetricSpan)..10

OutputFolders == {<<"out">>, <<"out", SEP>>}
TrainPaths == {None, Some(<<"train.csv">>)}
ModelPaths == {None, Some(<<"old", SEP, "model.pt">>)}
\* to_excel only accepts a path with a sheet extension
ParamsPaths == {None, Some(<<"best", ".xlsx">>)}

\* what automl.forward() may hand back as params
SearchParams ==
    { [lr |-> PyFloat(5), fourie_mode |-> PyStr("lin"), max_seq_len |-> PyInt(128),
       num_layers |-> PyInt(4)],
      [lr |-> PyFloat(5), max_seq_len |-> PyInt(128), num_layers |-> PyInt(4),
       hidden_dim |-> PyInt(64)] }

\* what automl.forward() may hand back as model
Models == {"weights1", "weights2"}

\* sheets somebody wrote by hand
HandSheets ==
    { [lr |-> NumCell(5), fourie_mode |-> TextCell("lin"), num_layers |-> NumCell(-45),
       hidden_dim |-> TextCell("4")],
      [lr |-> NumCell(5), num_layers |-> TextCell("deep")] }

ModelFile(w) == [type |-> "model", state |-> w]
SheetFile(cells) == [type |-> "sheet", cells |-> cells]

Exists(path) == Resolve(path) \in DOMAIN fs
IsSheet(path) == Exists(path) /\ fs[Resolve(path)].type = "sheet"

\* mutant: a file that is already there is kept
WriteIfAbsent(path, content) == fs @@ (Resolve(path) :> content)

Write(path, content) == (Resolve(path) :> content) @@ fs

MODEL_NAME == <<"TSCT_model.pt">>

----------------------------------------------------------------------------
(* The run *)

Init ==
    /\ \E hand \in {None} \cup {Some(h) : h \in HandSheets} :
          fs = (Resolve(<<"old", SEP, "model.pt">>) :> ModelFile("weights0")) @@
               (IF hand.some THEN Resolve(<<"best", ".xlsx">>) :> SheetFile(hand.val)
                ELSE <<>>)
    /\ pc = "idle"
    /\ args = None
    /\ params_file_path = None
    /\ model = None
    /\ params = None
    /\ metric = None
    /\ trace = <<>>
    /\ fsStart = fs
    /\ evaluated = {}

\* mutant: test_model is not asked for its model_path
ArgsErrorNoModelPath(a) ==
    \/ a.mode = "train" /\ a.train_path = None
    \/ a.mode = "test_params" /\ a.params_file_path = None
    \/ a.mode = "test_model" /\ a.params_file_path = None

\* the checks of parse_arguments after parser.parse_args()
ArgsError(a) ==
    \/ a.mode = "train" /\ a.train_path = None
    \/ a.mode = "test_params" /\ a.params_file_path = None
    \/ a.mode = "test_model" /\ (a.params_file_path = None \/ a.model_path = None)

\* a process starts: parse_arguments, then the __main__ block up to the call of forward
ParseArguments ==
    /\ pc = "idle"
    /\ \E m \in Modes, of \in OutputFolders, mp \in ModelPaths, pp \in ParamsPaths,
          tp \in TrainPaths :
          LET a == [mode |-> m, output_folder |-> of, model_path |-> mp,
                    params_file_path |-> pp, train_path |-> tp]
          IN  /\ args' = Some(a)
              /\ IF ArgsError(a)
                 THEN pc' = "usage_error" /\ params_file_path' = None
                 ELSE pc' = "forward" /\ params_file_path' = pp
    /\ model' = None /\ params' = None /\ metric' = None
    /\ trace' = <<>>
    /\ fsStart' = fs
    /\ UNCHANGED <<fs, evaluated>>

\* mutant: the search and the writes are not kept to train mode
LoadConfigAlwaysSearch ==
    /\ pc = "forward"
    /\ \E ok \in BOOLEAN : pc' = IF ~ok THEN "raised" ELSE "search"
    /\ UNCHANGED <<fs, args, params_file_path, model, params, metric, trace, fsStart,
                   evaluated>>

\* open(config_path), json.load and AutoML(train_path, test_path, **config)
LoadConfig ==
    /\ pc = "forward"
    /\ \E ok \in BOOLEAN :
          pc' = IF ~ok THEN "raised"
                ELSE IF args.val.mode = "train" THEN "search" ELSE "load"
    /\ UNCHANGED <<fs, args, params_file_path, model, params, metric, trace, fsStart,
                   evaluated>>

\* model, params, metric = automl.forward()
Search ==
    /\ pc = "search"
    /\ \/ \E w \in Models, p \in SearchParams, m \in Metrics :
             /\ model' = Some(w)
             /\ params' = Some(p)
             /\ metric' = Some(m)
             /\ trace' = Append(trace, [op |-> "search", ok |-> TRUE, metric |-> m,
                                        params |-> p])
             /\ pc' = "derive"
       \/ /\ trace' = Append(trace, [op |-> "search", ok |-> FALSE])
          /\ pc' = "raised"
          /\ UNCHANGED <<model, params, metric>>
    /\ UNCHANGED <<fs, args, params_file_path, fsStart, evaluated>>

\* if params_file_path is None: params_file_path = join(output_folder, str(metric)) + '.xlsx'
DerivePath ==
    /\ pc = "derive"
    /\ IF params_file_path = None
       THEN /\ params_file_path' =
                   Some(join(args.val.output_folder, str(metric.val)) \o <<".xlsx">>)
            /\ trace' = Append(trace, [op |-> "derive"])
       ELSE UNCHANGED <<params_file_path, trace>>
    /\ pc' = "save_model"
    /\ UNCHANGED <<fs, args, model, params, metric, fsStart, evaluated>>

\* the entries of evaluated that a write to path leaves
Forget(path) == {e \in evaluated : e.path # Resolve(path)}

\* mutant: the record is not written after the model
SaveModelSkipParams ==
    /\ pc = "save_model"
    /\ LET path == join(args.val.output_folder, MODEL_NAME)
       IN  \E ok \in BOOLEAN :
             /\ trace' = Append(trace, [op |-> "save_model", ok |-> ok,
                                        path |-> Resolve(path)])
             /\ IF ok
                THEN /\ fs' = Write(path, ModelFile(model.val))
                     /\ evaluated' = Forget(path)
                     /\ pc' = "load"
                ELSE /\ pc' = "raised"
                     /\ UNCHANGED <<fs, evaluated>>
    /\ UNCHANGED <<args, params_file_path, model, params, metric, fsStart>>

\* torch.save(model.state_dict(), join(output_folder, 'TSCT_model.pt'))
SaveModel ==
    /\ pc = "save_model"
    /\ LET path == join(args.val.output_folder, MODEL_NAME)
       IN  \E ok \in BOOLEAN :
             /\ trace' = Append(trace, [op |-> "save_model", ok |-> ok,
                                        path |-> Resolve(path)])
             /\ IF ok
                THEN /\ fs' = Write(path, ModelFile(model.val))
                     /\ evaluated' = Forget(path)
                     /\ pc' = "save_params"
                ELSE /\ pc' = "raised"
                     /\ UNCHANGED <<fs, evaluated>>
    /\ UNCHANGED <<args, params_file_path, model, params, metric, fsStart>>

\* mutant: a failed write of the record is swallowed and the run goes on
SaveParamsSwallow ==
    /\ pc = "save_params"
    /\ LET path == params_file_path.val
       IN  \E ok \in BOOLEAN :
             /\ trace' = Append(trace, [op |-> "save_params", ok |-> ok,
                                        path |-> Resolve(path)])
             /\ IF ok
                THEN /\ fs' = Write(path, SheetFile(to_excel(params.val)))
                     /\ evaluated' = Forget(path)
                ELSE UNCHANGED <<fs, evaluated>>
             /\ pc' = "load"
    /\ UNCHANGED <<args, params_file_path, model, params, metric, fsStart>>

\* pd.Series(params).to_excel(params_file_path)
SaveParams ==
    /\ pc = "save_params"
    /\ LET path == params_file_path.val
       IN  \E ok \in BOOLEAN :
             /\ trace' = Append(trace, [op |-> "save_params", ok |-> ok,
                                        path |-> Resolve(path)])
             /\ IF ok
                THEN /\ fs' = Write(path, SheetFile(to_excel(params.val)))
                     /\ evaluated' = Forget(path)
                     /\ pc' = "load"
                ELSE /\ pc' = "raised"
                     /\ UNCHANGED <<fs, evaluated>>
    /\ UNCHANGED <<args, params_file_path, model, params, metric, fsStart>>

\* mutant: a train run goes on with the params it holds in memory
LoadParamsKeepInMemory ==
    /\ pc = "load"
    /\ LET path == params_file_path.val
       IN  \E ok \in {b \in BOOLEAN : b => IsSheet(path)} :
             /\ trace' = Append(trace, [op |-> "read_params", ok |-> ok,
                                        path |-> Resolve(path)])
             /\ IF ok
                THEN /\ params' = IF args.val.mode = "train" THEN params
                                  ELSE Some(read_excel(fs[Resolve(path)].cells))
                     /\ pc' = "coerce"
                ELSE /\ pc' = "raised"
                     /\ UNCHANGED params
    /\ UNCHANGED <<fs, args, params_file_path, model, metric, fsStart, evaluated>>

\* params = pd.read_excel(params_file_path, index_col=0).to_dict()[0]
LoadParams ==
    /\ pc = "load"
    /\ LET path == params_file_path.val
       IN  \E ok \in {b \in BOOLEAN : b => IsSheet(path)} :
             /\ trace' = Append(trace, [op |-> "read_params", ok |-> ok,
                                        path |-> Resolve(path)])
             /\ IF ok
                THEN /\ params' = Some(read_excel(fs[Resolve(path)].cells))
                     /\ pc' = "coerce"
                ELSE /\ pc' = "raised"
                     /\ UNCHANGED params
    /\ UNCHANGED <<fs, args, params_file_path, model, metric, fsStart, evaluated>>

\* for param, value in params.items(): ... params[param] = int(value)
CoerceParams ==
    /\ pc = "coerce"
    /\ IF CoerceRaises(params.val)
       THEN pc' = "raised" /\ UNCHANGED params
       ELSE pc' = "eval" /\ params' = Some(Coerce(params.val))
    /\ UNCHANGED <<fs, args, params_file_path, model, metric, trace, fsStart, evaluated>>

\* what an evaluation adds to evaluated
Evaluate == evaluated \cup {[path |-> Resolve(params_file_path.val), params |-> params.val]}

\* mutant: test_model is called in every mode
TestModelAnyMode ==
    /\ pc = "eval"
    /\ LET call == [op |-> "test_model", model_path |-> args.val.model_path,
                    params |-> params.val]
       IN  \/ \E m \in Metrics :
                /\ metric' = Some(m)
                /\ trace' = Append(trace, call @@ [ok |-> TRUE, metric |-> m])
                /\ pc' = "returned"
           \/ /\ trace' = Append(trace, call @@ [ok |-> FALSE])
              /\ pc' = "raised"
              /\ UNCHANGED metric
    /\ evaluated' = Evaluate
    /\ UNCHANGED <<fs, args, params_file_path, model, params, fsStart>>

\* if mode == 'test_model': metric = automl.test_model(model_path, **params); return metric
TestModel ==
    /\ pc = "eval"
    /\ args.val.mode = "test_model"
    /\ LET call == [op |-> "test_model", model_path |-> args.val.model_path,
                    params |-> params.val]
       IN  \/ \E m \in Metrics :
                /\ metric' = Some(m)
                /\ trace' = Append(trace, call @@ [ok |-> TRUE, metric |-> m])
                /\ pc' = "returned"
           \/ /\ trace' = Append(trace, call @@ [ok |-> FALSE])
              /\ pc' = "raised"
              /\ UNCHANGED metric
    /\ evaluated' = Evaluate
    /\ UNCHANGED <<fs, args, params_file_path, model, params, fsStart>>

\* mutant: a train run keeps the metric of the search
TestParamsKeepMetric ==
    /\ pc = "eval"
    /\ args.val.mode # "test_model"
    /\ LET call == [op |-> "test_params", params |-> params.val]
       IN  \/ \E m \in Metrics :
                /\ metric' = IF args.val.mode = "train" THEN metric ELSE Some(m)
                /\ trace' = Append(trace, call @@ [ok |-> TRUE, metric |-> m])
                /\ pc' = "returned"
           \/ /\ trace' = Append(trace, call @@ [ok |-> FALSE])
              /\ pc' = "raised"
              /\ UNCHANGED metric
    /\ evaluated' = Evaluate
    /\ UNCHANGED <<fs, args, params_file_path, model, params, fsStart>>

\* metric = automl.test_params(**params); return metric
TestParams ==
    /\ pc = "eval"
    /\ args.val.mode # "test_model"
    /\ LET call == [op |-> "test_params", params |-> params.val]
       IN  \/ \E m \in Metrics :
                /\ metric' = Some(m)
                /\ trace' = Append(trace, call @@ [ok |-> TRUE, metric |-> m])
                /\ pc' = "returned"
           \/ /\ trace' = Append(trace, call @@ [ok |-> FALSE])
              /\ pc' = "raised"
              /\ UNCHANGED metric
    /\ evaluated' = Evaluate
    /\ UNCHANGED <<fs, args, params_file_path, model, params, fsStart>>

\* print(metric) and the end of the process, or its end by parser.error or a traceback
Exit ==
    /\ pc \in {"returned", "usage_error", "raised"}
    /\ pc' = "idle"
    /\ args' = None /\ params_file_path' = None
    /\ model' = None /\ params' = None /\ metric' = None
    /\ trace' = <<>>
    /\ fsStart' = fs
    /\ UNCHANGED <<fs, evaluated>>

Next ==
    \/ ParseArguments
    \/ LoadConfig
    \/ Search
    \/ DerivePath
    \/ SaveModel
    \/ SaveParams
    \/ LoadParams
    \/ CoerceParams
    \/ TestModel
    \/ TestParams
    \/ Exit

Spec == Init /\ [][Next]_vars

----------------------------------------------------------------------------
(* Reading the history of the current run *)

Idx(o) == {i \in DOMAIN trace : trace[i].op = o}
Count(o) == Cardinality(Idx(o))
EvalCalls == Idx("test_params") \cup Idx("test_model")
IoSteps == Idx("save_model") \cup Idx("save_params") \cup Idx("read_params")
Running == args.some
Mode == args.val.mode
Explicit == args.val.params_file_path # None
SearchResult == trace[CHOOSE i \in Idx("search") : TRUE]
\* the files this run wrote
Written == {trace[i].path : i \in {j \in Idx("save_model") \cup Idx("save_params") : trace[j].ok}}
\* every file outside paths is as it was when the run started
SameExcept(paths) ==
    /\ DOMAIN fs \ paths = DOMAIN fsStart \ paths
    /\ \A p \in DOMAIN fs \ paths : fs[p] = fsStart[p]
\* <folder>/<name> as the claims write it
Under(folder, name) == Resolve(folder \o <<SEP>> \o name)
Sheets == {p \in DOMAIN fs : fs[p].type = "sheet"}
ModelFiles == {p \in DOMAIN fs : fs[p].type = "model"}
\* the files in the output folder of the run
InFolder == {p \in DOMAIN fs : Len(p) > 1 /\ <<p[1]>> = Resolve(args.val.output_folder)}

----------------------------------------------------------------------------
(* C1 *)

MissingRequired(a) ==
    \/ a.mode = "train" /\ a.train_path = None
    \/ a.mode \in {"test_params", "test_model"} /\ a.params_file_path = None
    \/ a.mode = "test_model" /\ a.model_path = None

\* C1: a run whose mode lacks a path it requires (train without train_path,
\* test_params / test_model without params_file_path, test_model without
\* model_path) ends in the usage error, has written no file and has called
\* neither the search nor an evaluation.
C1_ModeGating ==
    (Running /\ MissingRequired(args.val)) =>
        /\ pc = "usage_error"
        /\ trace = <<>>
        /\ fs = fsStart

C1_Witness ==
    /\ pc = "usage_error"
    /\ Mode = "test_model"
    /\ args.val.params_file_path # None
    /\ args.val.model_path = None

----------------------------------------------------------------------------
(* C2 *)

\* the record at the params path the caller gave, loaded and coerced
GivenRecordCoerced == Coerce(read_excel(fs[Resolve(args.val.params_file_path.val)].cells))

\* C2: a test_params run that returns has called test_params exactly once,
\* with the coerced record, and never test_model; a test_model run that
\* returns has called test_model exactly once, with model_path and the
\* coerced record, and never test_params.
C2_EvaluatorDispatch ==
    pc = "returned" =>
        /\ Mode = "test_params" =>
              /\ Count("test_params") = 1 /\ Count("test_model") = 0
              /\ \A i \in Idx("test_params") : trace[i].params = GivenRecordCoerced
        /\ Mode = "test_model" =>
              /\ Count("test_model") = 1 /\ Count("test_params") = 0
              /\ \A i \in Idx("test_model") :
                    /\ trace[i].params = GivenRecordCoerced
                    /\ trace[i].model_path = args.val.model_path

C2_Witness ==
    /\ pc = "returned"
    /\ Mode = "test_model"
    /\ Count("test_model") = 1
    /\ \E i \in Idx("test_model") : trace[i].params.num_layers = PyInt(-4)

----------------------------------------------------------------------------
(* C3 *)

\* C3: in a test_params or test_model run the search is never called,
\* nothing is written, and the file system is the one the run started with.
C3_TestModesReadOnly ==
    (Running /\ Mode \in {"test_params", "test_model"}) =>
        /\ Count("search") = 0
        /\ Count("save_model") = 0 /\ Count("save_params") = 0
        /\ fs = fsStart

C3_Witness ==
    /\ pc = "returned"
    /\ Mode = "test_params"
    /\ Count("read_params") = 1
    /\ Count("test_params") = 1

----------------------------------------------------------------------------
(* C4 *)

\* C4: in a train run the model is written at <output_folder>/TSCT_model.pt;
\* the record is written at <output_folder>/<str(metric)>.xlsx when no
\* params_file_path was given and at the given path otherwise; no other
\* file changes.
C4_DerivedPath ==
    (Running /\ Mode = "train") =>
        /\ \A i \in Idx("save_model") :
              trace[i].path = Under(args.val.output_folder, MODEL_NAME)
        /\ \A i \in Idx("save_params") :
              /\ trace[i].path =
                    IF Explicit THEN Resolve(args.val.params_file_path.val)
                    ELSE Under(args.val.output_folder,
                               str(SearchResult.metric) \o <<".xlsx">>)
              /\ trace[i].ok => /\ trace[i].path \in Sheets
                                /\ trace[i].path \in Written
        /\ Count("save_model") <= 1 /\ Count("save_params") <= 1
        /\ SameExcept(Written)

C4_Witness ==
    /\ pc = "load"
    /\ Mode = "train"
    /\ ~Explicit
    /\ args.val.output_folder = <<"out", SEP>>
    /\ SearchResult.metric = 9
    /\ <<<<"out">>, <<"0", ".", "9", ".xlsx">>>> \in Sheets \ DOMAIN fsStart
    /\ <<<<"out">>, <<"TSCT_model.pt">>>> \in ModelFiles

----------------------------------------------------------------------------
(* C5 *)

\* C5 as claimed: after a train run that returns, the output folder together
\* with what the run wrote holds exactly one model file and exactly one
\* record file, whatever the folder held before.
C5_ExactlyOneEach ==
    (pc = "returned" /\ Mode = "train") =>
        /\ Cardinality((InFolder \cup Written) \cap ModelFiles) = 1
        /\ Cardinality((InFolder \cup Written) \cap Sheets) = 1

\* C5: a train run that returns has written exactly one model file, at the
\* fixed name under the output folder and holding the model of this run
\* whatever was there before, and exactly one record file; every other
\* file, the records of earlier runs included, is left as it was.
C5_TrainWritesBoth ==
    (pc = "returned" /\ Mode = "train") =>
        /\ Count("save_model") = 1 /\ Count("save_params") = 1
        /\ Cardinality(Written \cap ModelFiles) = 1
        /\ Cardinality(Written \cap Sheets) = 1
        /\ fs[Under(args.val.output_folder, MODEL_NAME)] = ModelFile(model.val)
        /\ SameExcept(Written)

C5_Witness ==
    /\ pc = "returned"
    /\ Mode = "train"
    /\ Under(args.val.output_folder, MODEL_NAME) \in DOMAIN fsStart
    /\ fsStart[Under(args.val.output_folder, MODEL_NAME)] # ModelFile(model.val)
    /\ Cardinality(InFolder \cap Sheets) > 1

----------------------------------------------------------------------------
(* C6 *)

\* the record file of the run and what read_excel makes of it
Record == fs[Resolve(params_file_path.val)].cells
Loaded == read_excel(Record)

\* n is value cut to an integer: towards zero for a number, parsed for a text
IsIntOf(n, value) ==
    IF value.k = "int" THEN n = value.v
    ELSE IF value.k = "float"
         THEN /\ n * value.t >= 0
              /\ (IF n >= 0 THEN n ELSE -n) * 10 <= (IF value.t >= 0 THEN value.t ELSE -value.t)
              /\ (IF value.t >= 0 THEN value.t ELSE -value.t) < (IF n >= 0 THEN n ELSE -n) * 10 + 10
    ELSE value.s \in DOMAIN IntText /\ n = IntText[value.s]

\* C6: the params handed to an evaluation have exactly the keys of the
\* record; a key outside the allow-list holds an int, the loaded value cut
\* to an integer; a key of the allow-list holds the loaded value unchanged.
C6_LoadAndCoerce ==
    \A i \in EvalCalls :
        LET given == trace[i].params
        IN  /\ DOMAIN given = DOMAIN Record
            /\ \A key \in DOMAIN given \ AllowList :
                  given[key].k = "int" /\ IsIntOf(given[key].v, Loaded[key])
            /\ \A key \in DOMAIN given \cap AllowList : given[key] = Loaded[key]

C6_Witness ==
    /\ pc = "returned"
    /\ \E i \in EvalCalls :
          /\ Loaded.num_layers = PyFloat(40) /\ trace[i].params.num_layers = PyInt(4)
          /\ Loaded.hidden_dim = PyFloat(640) /\ trace[i].params.hidden_dim = PyInt(64)
          /\ trace[i].params.max_seq_len = PyFloat(1280)
          /\ trace[i].params.lr = PyFloat(5)

----------------------------------------------------------------------------
(* C7 *)

\* C7 as claimed: the metric a train run returns is the metric the search
\* produced.
C7_TrainReturnsSearchMetric ==
    (pc = "returned" /\ Mode = "train") => metric.val = SearchResult.metric

\* C7: in every mode the metric a run returns is the metric of its one
\* evaluation call, which is the last step of the run; in train mode that
\* is test_params on the reloaded, coerced params, and the metric of the
\* search only names the derived record file.
C7_ReturnsEvaluatorMetric ==
    pc = "returned" =>
        /\ Len(trace) \in EvalCalls
        /\ trace[Len(trace)].ok
        /\ metric.val = trace[Len(trace)].metric
        /\ trace[Len(trace)].op = (IF Mode = "test_model" THEN "test_model" ELSE "test_params")
        /\ (Mode = "train" /\ ~Explicit) =>
              Resolve(params_file_path.val) =
                 Under(args.val.output_folder, str(SearchResult.metric) \o <<".xlsx">>)

C7_Witness ==
    /\ pc = "returned"
    /\ Mode = "train"
    /\ metric.val # SearchResult.metric
    /\ trace[Len(trace)].op = "test_params"

----------------------------------------------------------------------------
(* C8 *)

\* C8: a failed write of the model, a failed write of the record or a failed
\* read of the record is the last step of its run: the run has raised, no
\* step is tried twice, no evaluation is called and no metric is returned.
C8_IoFailureFatal ==
    /\ \A i \in IoSteps :
          ~trace[i].ok => /\ i = Len(trace)
                          /\ pc = "raised"
                          /\ EvalCalls = {}
    /\ Count("save_model") <= 1 /\ Count("save_params") <= 1 /\ Count("read_params") <= 1
    /\ pc = "returned" => \A i \in IoSteps : trace[i].ok

C8_Witness ==
    /\ pc = "raised"
    /\ \E i \in Idx("save_model") : trace[i].ok
    /\ \E i \in Idx("save_params") : ~trace[i].ok
    /\ fs[Under(args.val.output_folder, MODEL_NAME)] = ModelFile(model.val)
    /\ Under(args.val.output_folder, MODEL_NAME) \notin DOMAIN fsStart

----------------------------------------------------------------------------
(* C9 *)

\* every step o2 of the run comes after a step o1 that succeeded
After(o1, o2) == \A j \in Idx(o2) : \E i \in Idx(o1) : i < j /\ trace[i].ok

\* C9 as claimed: the params path is derived only after the model has been
\* written.
C9_DeriveAfterModel == After("save_model", "derive")

\* C9: in a train run the search returns, then the params path is derived
\* if none was given, then the model is written, then the record is
\* written, and only then is the record read; no evaluation is called
\* before both writes and the read have succeeded.
C9_TrainOrder ==
    (Running /\ Mode = "train") =>
        /\ After("search", "derive")
        /\ After("search", "save_model")
        /\ ~Explicit => \A j \in Idx("save_model") : \E i \in Idx("derive") : i < j
        /\ After("save_model", "save_params")
        /\ After("save_params", "read_params")
        /\ \A j \in EvalCalls :
              /\ \E i \in Idx("save_model") : i < j /\ trace[i].ok
              /\ \E i \in Idx("save_params") : i < j /\ trace[i].ok
              /\ \E i \in Idx("read_params") : i < j /\ trace[i].ok

C9_Witness ==
    /\ pc = "returned"
    /\ Mode = "train"
    /\ ~Explicit
    /\ [i \in DOMAIN trace |-> trace[i].op] =
          <<"search", "derive", "save_model", "save_params", "read_params", "test_params">>

----------------------------------------------------------------------------
(* C10 *)

\* C10: the params handed to an evaluation are the coerced content of the
\* record file at the params path; in a train run that file holds what this
\* run wrote from the params of the search; and as long as a record file is
\* not written again, every evaluation on it is handed the same params.
C10_ReloadConsistency ==
    /\ \A i \in EvalCalls :
          /\ trace[i].params = Coerce(read_excel(fs[Resolve(params_file_path.val)].cells))
          /\ Mode = "train" =>
                /\ Resolve(params_file_path.val) \in Written
                /\ fs[Resolve(params_file_path.val)] = SheetFile(to_excel(SearchResult.params))
    /\ \A e1, e2 \in evaluated : e1.path = e2.path => e1.params = e2.params

C10_Witness ==
    /\ pc = "returned"
    /\ Mode = "train"
    /\ Resolve(params_file_path.val) \in DOMAIN fsStart
    /\ fsStart[Resolve(params_file_path.val)] # fs[Resolve(params_file_path.val)]
    /\ trace[Len(trace)].params # Coerce(SearchResult.params)

====
